---- MODULE Spec2Model ----
(***************************************************************************)
(* Model of the expo-upgrade repair loop of wm-reactnative-cli:            *)
(* expoUpgrade / checkExpoDoctor / resolveExpoDoctor / installDependencies *)
(* (src/unnamed/part_000) and the two LLM clients callGeminiAPI            *)
(* (src/src/gemini-api.js) and callOllamaAPI (src/unnamed/part_001).       *)
(*                                                                         *)
(* The environment (npm, expo-doctor, the file system's rm, the HTTP       *)
(* endpoint of the LLM) is an adversary: every outcome it can produce is   *)
(* drawn with \E.  The program's own steps are deterministic.              *)
(***************************************************************************)
EXTENDS Integers, FiniteSets, Sequences, TLC

(* ------------------------------ constants ------------------------------ *)

\* part_000:299  let maxAttempts = 5;
maxAttempts == 5

\* Exit codes of `npx expo-doctor` range over 0..MaxExitCode (bound).
MaxExitCode == 2

\* Version strings a dependency can carry in this model.
Versions == {"1.0.0", "9.9.9"}

(* ------------------------- JSON values and texts ----------------------- *)
(* A text is what a file or an HTTP reply holds; a value is what           *)
(* JSON.parse yields.  JSON.stringify and JSON.parse are modelled by what  *)
(* they do: stringify wraps a value into the text that denotes it, parse   *)
(* unwraps such a text and throws on every other text.                     *)

\* package.json as a mapping: one dependency X and the devDependencies section
Manifests == [X : Versions, devDependencies : Versions]

Obj(m) == [type |-> "object", map |-> m]
Str(t) == [type |-> "string", text |-> t]
Null == [type |-> "null"]
Absent == [type |-> "undefined"]
Reply(d, s) == [type |-> "reply", data |-> d, status |-> s]

Garbage == [kind |-> "garbage"]
Empty == [kind |-> "empty"]
Undefined == [kind |-> "undefined"]
Doc(v) == [kind |-> "json", val |-> v]

\* JSON.stringify(value, null, 2)
JSONstringify(v) == Doc(v)

\* JSON.parse(text): ok = FALSE stands for the SyntaxError it throws
JSONparse(t) ==
    IF t.kind = "json" THEN [ok |-> TRUE, val |-> t.val]
                       ELSE [ok |-> FALSE, val |-> Null]

\* JavaScript truthiness of a `data` value: undefined and "" are falsy,
\* every object and every non-empty string is truthy.
Truthy(d) ==
    CASE d.type = "object" -> TRUE
      [] d.type = "string" -> d.text.kind # "empty"
      [] OTHER -> FALSE

\* The values the field `data` of an LLM reply can hold
ManifestDocs == { Doc(Obj(m)) : m \in Manifests }
DataValues ==
    {Absent} \cup { Obj(m) : m \in Manifests }
             \cup { Str(t) : t \in {Empty, Garbage} \cup ManifestDocs }

\* The values of the field `status`; "" stands for absent (falsy)
StatusValues == {"success", "error", ""}

\* The texts an LLM can answer with
ReplyTexts ==
    {Garbage, Doc(Null)} \cup
    { Doc(Reply(d, s)) : d \in DataValues, s \in StatusValues }

(* --------------------------- HTTP environment -------------------------- *)

\* What axios.post can come back with.
Non2xx == [http |-> "non2xx"]
NoResponseReceived == [http |-> "noResponse"]
OkWithoutText == [http |-> "ok", hasText |-> FALSE]
OkWith(t) == [http |-> "ok", hasText |-> TRUE, text |-> t]
HttpResponses ==
    {Non2xx, NoResponseReceived, OkWithoutText} \cup { OkWith(t) : t \in ReplyTexts }

\* value of `response` while no LLM call was made in the current attempt
NoCall == [http |-> "none"]

\* The prompt is a fixed instruction template around the log and the
\* manifest, so `!userPrompt || !userPrompt.trim()` is never true of it.
PromptIsBlank == FALSE

\* callGeminiAPI(geminiKey, prompt): [threw, text]
callGeminiAPI(key, r) ==
    IF key = "" \/ PromptIsBlank THEN [threw |-> TRUE, text |-> Undefined]
    ELSE IF r.http # "ok" THEN [threw |-> TRUE, text |-> Undefined]
    ELSE IF r.hasText THEN [threw |-> FALSE, text |-> r.text]
    ELSE [threw |-> TRUE, text |-> Undefined]

\* callOllamaAPI(url, prompt, null, model, format): [threw, text]
callOllamaAPI(r) ==
    IF PromptIsBlank THEN [threw |-> TRUE, text |-> Undefined]
    ELSE IF r.http # "ok" THEN [threw |-> TRUE, text |-> Undefined]
    ELSE IF r.hasText THEN [threw |-> FALSE, text |-> r.text]
    ELSE [threw |-> FALSE, text |-> Undefined]

(* --------------------------- resolveExpoDoctor ------------------------- *)

\* part_000:215  return 'error'; // Default to error if anything fails
DefaultStatusWrong == "success"
DefaultStatus == "error"

\* part_000:186  fs.writeFileSync(packageJsonPath, data.data)
\* A string is written as it is; any other value makes writeFileSync throw
\* a TypeError before the file is opened.
geminiWriteWrong(disk, d) == [threw |-> FALSE, disk |-> Doc(d)]
geminiWrite(disk, d) ==
    IF d.type = "string" THEN [threw |-> FALSE, disk |-> d.text]
                         ELSE [threw |-> TRUE, disk |-> disk]

\* part_000:195  fs.writeFileSync(packageJsonPath, JSON.stringify(data.data, null, 2))
ollamaWriteWrong(disk, d) ==
    IF d.type = "string" THEN [threw |-> FALSE, disk |-> d.text]
                         ELSE [threw |-> TRUE, disk |-> disk]
ollamaWrite(disk, d) == [threw |-> FALSE, disk |-> JSONstringify(d)]

\* part_000:202  if (data && data.status) return data.status;
returnedStatus(s) == IF s # "" THEN s ELSE DefaultStatus

\* part_000:205-210  catch (parseError): log, fall through to the default
onParseErrorWrong(disk, resolution) == [status |-> DefaultStatus, disk |-> resolution, wrote |-> TRUE]
onParseError(disk, resolution) == [status |-> DefaultStatus, disk |-> disk, wrote |-> FALSE]

\* part_000:180-210  parse the reply, write the manifest, return the status
parseAndApply(isGemini, disk, resolution) ==
    LET p == JSONparse(resolution) IN
    IF ~p.ok THEN onParseError(disk, resolution)
    ELSE IF p.val.type # "reply" THEN onParseError(disk, resolution)
    ELSE LET d == p.val.data
             w == IF isGemini THEN geminiWrite(disk, d) ELSE ollamaWrite(disk, d)
         IN IF ~Truthy(d)
            THEN [status |-> returnedStatus(p.val.status), disk |-> disk, wrote |-> FALSE]
            ELSE IF w.threw THEN onParseError(disk, resolution)
            ELSE [status |-> returnedStatus(p.val.status), disk |-> w.disk, wrote |-> TRUE]

\* part_000:157-169  the client of the configured provider; Gemini first
llmClient(key, r) == IF key # "" THEN callGeminiAPI(key, r) ELSE callOllamaAPI(r)

\* part_000:211-215  catch (aiError): log, return 'error'
onAiError(disk) == [threw |-> FALSE, called |-> TRUE, status |-> DefaultStatus, disk |-> disk, wrote |-> FALSE]

\* part_000:148-216  resolveExpoDoctor(src, errorLog, geminiKey, ollamaUrl, ollamaModel)
\* threw: the read of package.json at line 151 is outside the try block
resolveExpoDoctor(key, model, disk, r) ==
    IF ~JSONparse(disk).ok
    THEN [threw |-> TRUE, called |-> FALSE, status |-> DefaultStatus, disk |-> disk, wrote |-> FALSE]
    ELSE IF key = "" /\ model = "" THEN
         [threw |-> FALSE, called |-> FALSE, status |-> DefaultStatus, disk |-> disk, wrote |-> FALSE]
    ELSE LET c == llmClient(key, r) IN
         IF c.threw THEN onAiError(disk)
         ELSE LET a == parseAndApply(key # "", disk, c.text) IN
              [threw |-> FALSE, called |-> TRUE, status |-> a.status, disk |-> a.disk, wrote |-> a.wrote]

(* ---------------------------- checkExpoDoctor -------------------------- *)

\* What execa can come back with: a rejection (the command could not be
\* launched) or a result with an exit code (reject: false).
LaunchFailure == [launched |-> FALSE, exitCode |-> 0]
Exited(c) == [launched |-> TRUE, exitCode |-> c]
DoctorOutcomes == {LaunchFailure} \cup { Exited(c) : c \in 0..MaxExitCode }

\* part_000:221-252  what the execa call leads to: return true, call
\* resolveExpoDoctor, or (catch) return false
execaBranchWrong(o) ==
    IF ~o.launched THEN "true" ELSE IF o.exitCode = 0 THEN "true" ELSE "resolve"
execaBranchInverted(o) ==
    IF ~o.launched THEN "false" ELSE IF o.exitCode # 0 THEN "true" ELSE "resolve"
execaBranch(o) ==
    IF ~o.launched THEN "false" ELSE IF o.exitCode = 0 THEN "true" ELSE "resolve"

\* part_000:242-251  the value checkExpoDoctor returns after resolveExpoDoctor
afterResolve(res) == IF res.threw THEN FALSE ELSE res.status = "success"

(* --------------------------- installDependencies ----------------------- *)

\* part_000:133-145  npm install; on failure process.exit(1)
installDependenciesWrong(o) == "ok"
installDependencies(o) == IF o = "ok" THEN "ok" ELSE "exit"

(* -------------------------------- the loop ----------------------------- *)

\* part_000:303  while (!expoDoctorPassed && attempt <= maxAttempts)
LoopConditionWrong(passed, att) == ~passed /\ att <= maxAttempts + 1
LoopCondition(passed, att) == ~passed /\ att <= maxAttempts

\* part_000:308  if (!expoDoctorPassed && attempt < maxAttempts)
ShouldRetryWrong(passed, att) == ~passed /\ att < maxAttempts - 1
ShouldRetry(passed, att) == ~passed /\ att < maxAttempts

NextPc(passed, att) == IF LoopCondition(passed, att) THEN "doctor" ELSE "report"

VARIABLES
    pc,               \* position of expoUpgrade
    geminiKey,        \* validatedArgs.geminiKey ("" when not given)
    ollamaModel,      \* validatedArgs.ollamaModel ("" when not given)
    disk,             \* content of package.json
    attempt,          \* part_000:300
    expoDoctorPassed, \* part_000:301
    errorLog,         \* exit code carried by the error log of the failed run
    response,         \* HTTP response of this attempt's LLM call
    result,           \* the final report: "none", "passed", "failed"
    \* history
    disk0,            \* package.json when the loop started
    diagRuns, llmCalls, writes, reinstalls,
    firstDiag, lastDiag,             \* "none", "pass", "fail", "launchFailure"
    allDiagFailed, allUnparseable,
    prevRepair,       \* manifest text carried by the previous attempt's reply
    installFailed, launchFailed,
    clientCall,       \* how this attempt's client call ended: "none", "threw",
                      \* "returnedText", "returnedUndefined"
    manifestInstalled \* the last npm install succeeded and package.json was
                      \* not written since

vars == <<pc, geminiKey, ollamaModel, disk, attempt, expoDoctorPassed, errorLog,
          response, result, disk0, diagRuns, llmCalls, writes, reinstalls,
          firstDiag, lastDiag, allDiagFailed, allUnparseable, prevRepair,
          installFailed, launchFailed, clientCall, manifestInstalled>>

config == <<geminiKey, ollamaModel, disk0>>
history == <<diagRuns, llmCalls, writes, reinstalls, firstDiag, lastDiag,
             allDiagFailed, allUnparseable, prevRepair, installFailed, launchFailed,
             clientCall, manifestInstalled>>

NoRepair == [form |-> "none", doc |-> Garbage]

IsGemini == geminiKey # ""

\* The form of `data` each backend's write expects: Gemini's reply carries
\* the manifest as a JSON document in a string (prompts.js:39, part_000:186),
\* Ollama's as a nested object (prompts.js:95, part_000:195).
BackendForm(isGemini) == IF isGemini THEN "string" ELSE "object"

\* The manifest document a reply carries in `data`, and in which form
CarriedManifest(r) ==
    IF r.http = "ok" /\ r.hasText /\ JSONparse(r.text).ok
       /\ JSONparse(r.text).val.type = "reply"
    THEN LET d == JSONparse(r.text).val.data IN
         IF d.type = "string" /\ d.text \in ManifestDocs
         THEN [form |-> "string", doc |-> d.text]
         ELSE IF d.type = "object" THEN [form |-> "object", doc |-> JSONstringify(d)]
         ELSE NoRepair
    ELSE NoRepair

Unparseable(r) == r.http = "ok" /\ r.hasText /\ ~JSONparse(r.text).ok

\* State after validateArgs, staging and updatePackageJson (part_000:265-295):
\* at least one provider is configured and package.json is a valid document.
Init ==
    /\ pc = "install"
    /\ geminiKey \in {"", "key"}
    /\ ollamaModel \in {"", "model"}
    /\ geminiKey # "" \/ ollamaModel # ""
    /\ disk \in ManifestDocs
    /\ disk0 = disk
    /\ attempt = 1
    /\ expoDoctorPassed = FALSE
    /\ errorLog = 0
    /\ response = NoCall
    /\ result = "none"
    /\ diagRuns = 0 /\ llmCalls = 0 /\ writes = 0 /\ reinstalls = 0
    /\ firstDiag = "none" /\ lastDiag = "none"
    /\ allDiagFailed = TRUE /\ allUnparseable = TRUE
    /\ prevRepair = NoRepair
    /\ installFailed = FALSE /\ launchFailed = FALSE
    /\ clientCall = "none" /\ manifestInstalled = FALSE

\* part_000:296  await installDependencies(src)
InitialInstall ==
    /\ pc = "install"
    /\ \E o \in {"ok", "fail"} :
         /\ installFailed' = (o = "fail")
         /\ manifestInstalled' = (o = "ok")
         /\ pc' = IF installDependencies(o) = "exit" THEN "exit1"
                  ELSE NextPc(expoDoctorPassed, attempt)
    /\ UNCHANGED <<config, disk, attempt, expoDoctorPassed, errorLog, response, result,
                   diagRuns, llmCalls, writes, reinstalls, firstDiag, lastDiag,
                   allDiagFailed, allUnparseable, prevRepair, launchFailed, clientCall>>

DiagKind(o) == IF ~o.launched THEN "launchFailure" ELSE IF o.exitCode = 0 THEN "pass" ELSE "fail"

\* part_000:306, 218-240  checkExpoDoctor up to the call of resolveExpoDoctor
RunExpoDoctor ==
    /\ pc = "doctor"
    /\ \E o \in DoctorOutcomes :
         /\ diagRuns' = diagRuns + 1
         /\ lastDiag' = DiagKind(o)
         /\ firstDiag' = IF firstDiag = "none" THEN DiagKind(o) ELSE firstDiag
         /\ allDiagFailed' = (allDiagFailed /\ DiagKind(o) = "fail")
         /\ launchFailed' = (launchFailed \/ o = LaunchFailure)
         /\ IF execaBranch(o) = "resolve"
            THEN /\ pc' = "resolve"
                 /\ errorLog' = o.exitCode
                 /\ UNCHANGED expoDoctorPassed
            ELSE /\ pc' = "tail"
                 /\ errorLog' = 0
                 /\ expoDoctorPassed' = (execaBranch(o) = "true")
    /\ UNCHANGED <<config, disk, attempt, response, result, llmCalls, writes,
                   reinstalls, allUnparseable, prevRepair, installFailed,
                   clientCall, manifestInstalled>>

\* history: how the client call of resolveExpoDoctor ended
ClientOutcome(called, c) ==
    IF ~called THEN "none"
    ELSE IF c.threw THEN "threw"
    ELSE IF c.text = Undefined THEN "returnedUndefined"
    ELSE "returnedText"

\* part_000:242-251, 148-216  resolveExpoDoctor and the return of checkExpoDoctor
ResolveStep ==
    /\ pc = "resolve"
    /\ \E r \in HttpResponses :
         LET res == resolveExpoDoctor(geminiKey, ollamaModel, disk, r) IN
         /\ disk' = res.disk
         /\ response' = IF res.called THEN r ELSE NoCall
         /\ llmCalls' = llmCalls + (IF res.called THEN 1 ELSE 0)
         /\ writes' = writes + (IF res.wrote THEN 1 ELSE 0)
         /\ allUnparseable' = (allUnparseable /\ res.called /\ Unparseable(r))
         /\ expoDoctorPassed' = afterResolve(res)
         /\ clientCall' = ClientOutcome(res.called, llmClient(geminiKey, r))
         /\ manifestInstalled' = (manifestInstalled /\ ~res.wrote)
    /\ pc' = "tail"
    /\ errorLog' = 0
    /\ UNCHANGED <<config, attempt, result, diagRuns, reinstalls, firstDiag, lastDiag,
                   allDiagFailed, prevRepair, installFailed, launchFailed>>

\* history: what the attempt that ends here leaves for the next diagnostic
\* run; kept after a passing run, which ends the loop
Carry ==
    IF lastDiag = "pass" THEN prevRepair ELSE CarriedManifest(response)

\* part_000:308-317  remove lock file and node_modules, reinstall, attempt++,
\* and the next evaluation of the loop condition
TailStep ==
    /\ pc = "tail"
    /\ IF ShouldRetry(expoDoctorPassed, attempt)
       THEN \E rm \in {"ok", "throws"}, o \in {"ok", "fail"} :
              IF rm = "throws"
              THEN /\ pc' = "exit1"
                   /\ manifestInstalled' = FALSE
                   /\ UNCHANGED <<attempt, reinstalls, installFailed, prevRepair,
                                  response, clientCall>>
              ELSE /\ reinstalls' = reinstalls + 1
                   /\ installFailed' = (o = "fail")
                   /\ manifestInstalled' = (o = "ok")
                   /\ IF installDependencies(o) = "exit"
                      THEN /\ pc' = "exit1"
                           /\ UNCHANGED <<attempt, prevRepair, response, clientCall>>
                      ELSE /\ attempt' = attempt + 1
                           /\ pc' = NextPc(expoDoctorPassed, attempt + 1)
                           /\ prevRepair' = Carry
                           /\ response' = NoCall
                           /\ clientCall' = "none"
       ELSE /\ attempt' = attempt + 1
            /\ pc' = NextPc(expoDoctorPassed, attempt + 1)
            /\ prevRepair' = Carry
            /\ response' = NoCall
            /\ clientCall' = "none"
            /\ UNCHANGED <<reinstalls, installFailed, manifestInstalled>>
    /\ UNCHANGED <<config, disk, expoDoctorPassed, errorLog, result, diagRuns, llmCalls,
                   writes, firstDiag, lastDiag, allDiagFailed, allUnparseable, launchFailed>>

\* part_000:320-324  the final report
Report ==
    /\ pc = "report"
    /\ result' = IF expoDoctorPassed THEN "passed" ELSE "failed"
    /\ pc' = "done"
    /\ UNCHANGED <<config, disk, attempt, expoDoctorPassed, errorLog, response, history>>

Next == InitialInstall \/ RunExpoDoctor \/ ResolveStep \/ TailStep \/ Report

Spec == Init /\ [][Next]_vars

\* Every awaited child process and HTTP call returns, so the sequential
\* program always takes its next step.
FairSpec == Spec /\ WF_vars(Next)

(* ================================ claims =============================== *)

Terminated == pc \in {"done", "exit1"}

\* C1: the overall result 'passed' is reported only if the most recent
\* diagnostic run itself exited with code 0; a reply with status "success"
\* after a failed run does not end the loop as passed.
C1_PassedOnlyOnDiagnosticPass == result = "passed" => lastDiag = "pass"

\* C2: whatever the diagnostic results and LLM responses, the loop ends
\* after at most maxAttempts diagnostic runs, and the reinstalls performed
\* inside the loop never exceed maxAttempts.
C2_BoundedLoop ==
    /\ [](diagRuns <= maxAttempts /\ reinstalls <= maxAttempts)
    /\ <>Terminated
C2_Witness == pc = "done" /\ result = "failed" /\ diagRuns = maxAttempts /\ reinstalls = maxAttempts - 1

\* C3: if the diagnostic run of attempt 1 passes, the loop ends as passed
\* after exactly one diagnostic run, with no LLM call, no manifest write
\* and no reinstall inside the loop.
C3_FirstRunPasses ==
    firstDiag = "pass" =>
        /\ diagRuns = 1 /\ llmCalls = 0 /\ writes = 0 /\ reinstalls = 0
        /\ disk = disk0
        /\ expoDoctorPassed
        /\ pc \in {"tail", "report", "done"}
        /\ pc = "done" => result = "passed"
C3_Witness == firstDiag = "pass" /\ pc = "done" /\ result = "passed"

\* C4: if every diagnostic run fails and every LLM reply is unparseable,
\* the loop reports failed after maxAttempts attempts and package.json is
\* what it was when the loop started: no attempt wrote it.
C4_UnparseableLeavesManifest ==
    (allDiagFailed /\ allUnparseable) =>
        /\ disk = disk0 /\ writes = 0
        /\ ~expoDoctorPassed
        /\ pc = "done" => (result = "failed" /\ diagRuns = maxAttempts)
C4_Witness ==
    pc = "done" /\ allDiagFailed /\ allUnparseable /\ llmCalls >= maxAttempts - 1

\* C5 (as stated): for either backend, if a diagnostic run fails, the reply
\* carries in `data` manifest content (for instance with dependency X at
\* "9.9.9") and the next diagnostic run passes, the loop reports passed
\* and package.json on disk is the manifest that `data` carried.
C5_RepairPersistedAnyForm ==
    (lastDiag = "pass" /\ prevRepair.form # "none") =>
        /\ disk = prevRepair.doc
        /\ expoDoctorPassed
        /\ pc = "done" => result = "passed"

\* C5 (amended): the same, for `data` in the form the backend's write
\* expects: a string holding the JSON document for Gemini, a nested
\* object for Ollama.
C5_RepairPersisted ==
    (lastDiag = "pass" /\ prevRepair.form = BackendForm(IsGemini)) =>
        /\ disk = prevRepair.doc
        /\ JSONparse(disk).val.map.X = JSONparse(prevRepair.doc).val.map.X
        /\ expoDoctorPassed
        /\ pc = "done" => result = "passed"
C5_Witness ==
    /\ pc = "done" /\ result = "passed" /\ lastDiag = "pass"
    /\ prevRepair.form = BackendForm(IsGemini)
    /\ JSONparse(disk0).val.map.X = "1.0.0"
    /\ JSONparse(disk).val.map.X = "9.9.9"

\* C6: when a diagnostic run fails and the reply does not parse, or parses
\* without a `data` field (whatever its status), the attempt is not
\* repaired: the manifest is not written and the loop does not end as
\* passed on that reply.
LacksData(r) ==
    /\ r.http = "ok" /\ r.hasText
    /\ \/ ~JSONparse(r.text).ok
       \/ JSONparse(r.text).val.type # "reply"
       \/ JSONparse(r.text).val.data = Absent
C6_NoDataNotRepaired ==
    [][(pc = "resolve" /\ pc' = "tail" /\ LacksData(response'))
          => (disk' = disk /\ writes' = writes /\ ~expoDoctorPassed')]_vars

\* C7: the devDependencies section of package.json on disk equals, in
\* every reachable state of the loop, its value at the start of the loop.
DevDependencies(t) ==
    IF t \in ManifestDocs THEN t.val.map.devDependencies ELSE ""
C7_DevDependenciesUnaltered == DevDependencies(disk) = DevDependencies(disk0)

\* C8: a failure of the LLM client call (non-2xx, no response, malformed
\* success envelope) does not crash the loop: the manifest is unchanged
\* in that attempt, the attempt is consumed, and the loop goes on to the
\* next diagnostic run if attempts remain.
ClientFailure(r) ==
    \/ r.http \in {"non2xx", "noResponse"}
    \/ r.http = "ok" /\ ~r.hasText
C8_ClientFailureAbsorbed ==
    [][ /\ (pc = "resolve" /\ ClientFailure(response'))
            => (pc' = "tail" /\ disk' = disk /\ writes' = writes
                /\ ~expoDoctorPassed' /\ attempt' = attempt)
        /\ (pc = "tail" /\ ClientFailure(response))
            => /\ disk' = disk /\ writes' = writes
               /\ \/ pc' = "exit1" /\ attempt < maxAttempts
                  \/ /\ attempt' = attempt + 1
                     /\ pc' = IF attempt < maxAttempts THEN "doctor" ELSE "report"
      ]_vars
C8_Witness ==
    pc = "tail" /\ ClientFailure(response) /\ attempt < maxAttempts /\ writes > 0

\* C9: a failure of the dependency installer (initial or in the loop) is
\* fatal and not retried: the process exits with code 1 and no further
\* diagnostic run, LLM call, manifest write or reinstall occurs.
C9_InstallFailureFatal ==
    [][ /\ installFailed' => pc' = "exit1"
        /\ installFailed => UNCHANGED <<diagRuns, llmCalls, writes, reinstalls, disk, pc>>
      ]_vars
C9_Witness == installFailed /\ pc = "exit1" /\ reinstalls > 0 /\ llmCalls > 0

C11_MissingTextFails ==
    (response.http = "ok" /\ ~response.hasText) => clientCall = "threw"

\* C12: when the diagnostic run of the last attempt (attempt = maxAttempts)
\* fails, the loop ends as failed directly after it: that attempt makes no
\* LLM call and no manifest write, so a whole run makes at most
\* maxAttempts - 1 LLM calls.
C12_LastAttemptNoRepair ==
    [][ /\ attempt = maxAttempts
            => (llmCalls' = llmCalls /\ writes' = writes /\ disk' = disk)
        /\ llmCalls' <= maxAttempts - 1
        /\ (attempt = maxAttempts /\ lastDiag' = "fail") => ~expoDoctorPassed'
      ]_vars

\* C13: within every attempt a manifest write of the repair step is
\* complete before that attempt's removal of the lock file and
\* node_modules and its reinstall begin; nothing writes the manifest
\* between a reinstall and the diagnostic run that follows it, so that
\* run sees the manifest the last install used; and every diagnostic run
\* after the first is preceded by exactly one clear-and-reinstall step.
C13_RepairBeforeReinstall ==
    [][ /\ (writes' # writes \/ disk' # disk)
            => (pc = "resolve" /\ pc' = "tail"
                /\ reinstalls' = reinstalls /\ diagRuns' = diagRuns)
        /\ reinstalls' # reinstalls
            => (pc = "tail" /\ reinstalls' = reinstalls + 1
                /\ disk' = disk /\ writes' = writes /\ diagRuns' = diagRuns)
        /\ diagRuns' # diagRuns
            => (manifestInstalled /\ reinstalls = diagRuns
                /\ disk' = disk /\ writes' = writes)
      ]_vars
C13_Witness ==
    /\ pc = "tail" /\ lastDiag = "pass" /\ diagRuns = 3
    /\ writes = 2 /\ reinstalls = 2 /\ disk # disk0
====
